---- MODULE Spec2Model ----
(***************************************************************************)
(* convert_celeba.py: split the CelebA images into CycleGAN buckets        *)
(* (trainA, trainB, testA, testB, and valA, valB with --separate-val).     *)
(*                                                                         *)
(* A file name is a record [base, ext]; os.path.splitext takes it apart    *)
(* and base + ext puts one together.  A data frame is a sequence of rows   *)
(* in file order; a cell of an attribute column is <<v>> for the integer   *)
(* v and <<>> for the NaN pandas fills in where a join finds no match.     *)
(***************************************************************************)
EXTENDS Integers, Sequences, FiniteSets, TLC

\* ------------------------------------------------------------ bounds
\* Images (and metadata keys) the runs of main range over.
NumImages == 2
\* Worker counts 1..MaxWorkers for --workers.
MaxWorkers == 2
\* Keys and rows of the tables the metadata functions are applied to.
NumStems == 3
MaxRows == 3

\* --------------------------------------------------------- constants
PARTITIONS == [train |-> 0, val |-> 1, test |-> 2]
PART_COL == "partition"
FILE_EXT == ".png"
INDEX_EXT == ".jpg"

\* The header of list_attr_celeba.txt the model reads, and the names --attr
\* is drawn from (a column, a name that is no column, the reserved column).
Header == {"Male"}
AttrArgs == {"Male", "Young", PART_COL}

NaN == <<>>
Cell(v) == <<v>>

\* os.path.splitext, and the string concatenation base + ext.
splitext(f) == <<f.base, f.ext>>
Concat(base, ext) == [base |-> base, ext |-> ext]

\* Python's order on file names (".jpg" < ".png").
ExtRank(e) == IF e = INDEX_EXT THEN 0 ELSE 1
NameLess(f, g) == \/ f.base < g.base
                  \/ f.base = g.base /\ ExtRank(f.ext) < ExtRank(g.ext)

\* sorted(S) for a set of file names.
RECURSIVE sorted(_)
sorted(S) ==
    IF S = {} THEN <<>>
    ELSE LET m == CHOOSE x \in S : \A y \in S \ {x} : NameLess(x, y)
         IN  <<m>> \o sorted(S \ {m})

Range(s) == {s[i] : i \in 1..Len(s)}
Index(df) == [i \in 1..Len(df) |-> df[i].key]

RECURSIVE SumLen(_)
SumLen(s) == IF s = <<>> THEN 0 ELSE Len(Head(s).files) + SumLen(Tail(s))

\* ------------------------------------------------------------ inputs
Key(b) == Concat(b, INDEX_EXT)
PartCodes == {PARTITIONS[p] : p \in DOMAIN PARTITIONS}

SmallSubsets(S, n) == {K \in SUBSET S : Cardinality(K) <= n}
SortedKeys(K) ==
    [i \in 1..Cardinality(K) |->
        CHOOSE k \in K : Cardinality({j \in K : j < k}) = i - 1]
Reverse(s) == [i \in 1..Len(s) |-> s[Len(s) + 1 - i]]

\* The partition files of at most n rows over the keys `stems`, one row per
\* key, in ascending order of the keys.
AscPartTables(stems, n) ==
    UNION {{[i \in 1..Cardinality(K) |->
                [key |-> Key(SortedKeys(K)[i]),
                 partition |-> f[SortedKeys(K)[i]]]] : f \in [K -> PartCodes]} :
           K \in SmallSubsets(stems, n)}

\* The attribute files likewise, with the values `vals` in the one column.
AscAttrTables(stems, vals, n) ==
    UNION {{[i \in 1..Cardinality(K) |->
                [key |-> Key(SortedKeys(K)[i]),
                 attrs |-> [c \in Header |-> Cell(f[SortedKeys(K)[i]])]]] :
            f \in [K -> vals]} :
           K \in SmallSubsets(stems, n)}

\* The tables the metadata functions are applied to: the partition file lists
\* its keys in ascending or in descending order (a table whose row order is
\* not the sorted order), the attribute file any subset of the keys.
FnPartTables ==
    AscPartTables(1..NumStems, MaxRows) \cup
    {Reverse(s) : s \in AscPartTables(1..NumStems, MaxRows)}
FnAttrTables == AscAttrTables(1..NumStems, {-1, 0, 1}, MaxRows)

\* The files the runs of main read: keys in ascending order, as in CelebA.
PartTables == AscPartTables(1..NumImages, NumImages)
AttrTables == AscAttrTables(1..NumImages, {-1, 1}, NumImages)
ImageNames == [base : 1..NumImages, ext : {FILE_EXT, INDEX_EXT}]

\* pc, err          where main is, and the error it ended with
\* cmdargs          the parsed command line
\* outdir, outdir0  the output root: now, and when this run of main began
\* srcDir, images   the image root's content as os.listdir finds it (the
\*                  program never writes there) and its sorted listing
\* dfPartition, dfAttrs, specs   the two tables read and their join
\* parts            prepare_single_split of each partition
\* split_dict       bucket name -> files
\* cur              the bucket split_images is at
\* sent, running, results   the pool: tasks handed out, each worker's task,
\*                  the results not yet taken by main, in completion order
\* pbar             the bucket's progress bar
VARIABLES pc, err, cmdargs, outdir, outdir0, srcDir,
          dfPartition, dfAttrs, specs, images, parts, split_dict,
          cur, sent, running, results, pbar

vars == <<pc, err, cmdargs, outdir, outdir0, srcDir,
          dfPartition, dfAttrs, specs, images, parts, split_dict,
          cur, sent, running, results, pbar>>

\* ---------------------------------------------------------- metadata
\* df_partition.join(df_attrs): pandas joins on the index, keeps every row
\* of the left table in its order, and fills the columns of a key the right
\* table lacks with NaN.  It raises nothing when the keys differ.
join(left, right) ==
    [i \in 1..Len(left) |->
        [key       |-> left[i].key,
         partition |-> left[i].partition,
         attrs     |-> IF \E j \in 1..Len(right) : right[j].key = left[i].key
                       THEN right[CHOOSE j \in 1..Len(right) :
                                      right[j].key = left[i].key].attrs
                       ELSE [c \in Header |-> NaN]]]

load_celeba_specs(df_attrs, df_partition) == join(df_partition, df_attrs)

columns(df) == {PART_COL} \cup Header

\* Comparisons with NaN are False.
Gt0(c) == c # NaN /\ c[1] > 0
Le0(c) == c # NaN /\ c[1] <= 0

\* The masks with >= 0 and < 0.
prepare_single_split_ge(df, attr, partition) ==
    LET part_mask(r) == r.partition = PARTITIONS[partition]
        mask_a(r) == r.attrs[attr] # NaN /\ r.attrs[attr][1] >= 0 /\ part_mask(r)
        mask_b(r) == r.attrs[attr] # NaN /\ r.attrs[attr][1] < 0 /\ part_mask(r)
    IN  <<Index(SelectSeq(df, mask_a)), Index(SelectSeq(df, mask_b))>>

prepare_single_split(df, attr, partition) ==
    LET part_mask(r) == r.partition = PARTITIONS[partition]
        mask_a(r) == Gt0(r.attrs[attr]) /\ part_mask(r)
        mask_b(r) == Le0(r.attrs[attr]) /\ part_mask(r)
    IN  <<Index(SelectSeq(df, mask_a)), Index(SelectSeq(df, mask_b))>>

Bucket(name, files) == [name |-> name, files |-> files]

\* The merged buckets with the val list first.
prepare_image_split_valfirst(df, attr, separate_val) ==
    LET train == prepare_single_split(df, attr, "train")
        val   == prepare_single_split(df, attr, "val")
        test  == prepare_single_split(df, attr, "test")
    IN  IF separate_val
        THEN << Bucket("trainA", train[1]), Bucket("trainB", train[2]),
                Bucket("valA", val[1]),     Bucket("valB", val[2]),
                Bucket("testA", test[1]),   Bucket("testB", test[2]) >>
        ELSE << Bucket("trainA", train[1]), Bucket("trainB", train[2]),
                Bucket("testA", val[1] \o test[1]),
                Bucket("testB", val[2] \o test[2]) >>

\* The dict is a sequence of (name, files) in insertion order.
prepare_image_split(df, attr, separate_val) ==
    LET train == prepare_single_split(df, attr, "train")
        val   == prepare_single_split(df, attr, "val")
        test  == prepare_single_split(df, attr, "test")
    IN  IF separate_val
        THEN << Bucket("trainA", train[1]), Bucket("trainB", train[2]),
                Bucket("valA", val[1]),     Bucket("valB", val[2]),
                Bucket("testA", test[1]),   Bucket("testB", test[2]) >>
        ELSE << Bucket("trainA", train[1]), Bucket("trainB", train[2]),
                Bucket("testA", test[1] \o val[1]),
                Bucket("testB", test[2] \o val[2]) >>

\* TRUE when the assertion holds.
validate_image_split(df, split) == Len(df) = SumLen(split)

\* ------------------------------------------------------- validation
\* TRUE when validate_attr returns, FALSE when it raises ValueError.
validate_attr(df, attr) == attr \in (columns(df) \ {PART_COL})

\* The loop without the look-up of the entry in the index.
RECURSIVE check_images_noindex(_, _)
check_images_noindex(imgs, df) ==
    IF imgs = <<>> THEN "none"
    ELSE IF splitext(Head(imgs))[2] # FILE_EXT THEN "ext"
    ELSE check_images_noindex(Tail(imgs), df)

validate_images_noindex(imgs, df) ==
    IF Len(imgs) # Len(df) THEN "count" ELSE check_images_noindex(imgs, df)

\* The loop over the images: the first assertion that fails, or "none".
RECURSIVE check_images(_, _)
check_images(imgs, df) ==
    IF imgs = <<>> THEN "none"
    ELSE LET base == splitext(Head(imgs))[1]
             ext  == splitext(Head(imgs))[2]
             entry_index == Concat(base, INDEX_EXT)
         IN  IF ext # FILE_EXT THEN "ext"
             ELSE IF entry_index \notin Range(Index(df)) THEN "index"
             ELSE check_images(Tail(imgs), df)

validate_images(imgs, df) ==
    IF Len(imgs) # Len(df) THEN "count" ELSE check_images(imgs, df)

\* ------------------------------------------------------------- copy
\* CopyWorker.__call__: the name of the file it copies, in both roots.
CopyName(file_index) == Concat(splitext(file_index)[1], FILE_EXT)

\* os.path.join(outdir, subdir), relative to the output root.
\* The output root itself.
curr_outdir_root(subdir) == "."
curr_outdir(subdir) == subdir

DirExists(d) == outdir.exists /\ (d = "." \/ d \in outdir.subdirs)

\* An update that is lost.
update_lost(p) == p
\* pbar.update()
update(p) == [p EXCEPT !.n = @ + 1]

Idle == <<>>
NoPool == [w \in 1..cmdargs.workers |-> Idle]
NoPbar == [n |-> 0, total |-> 0]
Failure(f, why) == [file |-> f, ok |-> FALSE, why |-> why]
Success(f) == [file |-> f, ok |-> TRUE, why |-> "none"]

\* ------------------------------------------------------------- main
\* prepare_outdir called before validate_image_split.
MainOrder_mkdirEarly ==
    << "exists", "load", "validate_attr", "collect", "validate_images",
       "prepare_split", "prepare_outdir", "validate_split", "split_images" >>

\* The statements of main in the order it runs them.
MainOrder ==
    << "exists", "load", "validate_attr", "collect", "validate_images",
       "prepare_split", "validate_split", "prepare_outdir", "split_images" >>

Pos(step) == CHOOSE i \in 1..Len(MainOrder) : MainOrder[i] = step
After(step) == IF Pos(step) = Len(MainOrder) THEN "done"
               ELSE MainOrder[Pos(step) + 1]

Raise(kind) == pc' = "error" /\ err' = kind

Init ==
    /\ pc = MainOrder[1]
    /\ err = "none"
    /\ cmdargs \in [attr : AttrArgs, separate_val : BOOLEAN,
                    workers : 1..MaxWorkers]
    /\ outdir \in {[exists |-> e, subdirs |-> {}, files |-> {}] : e \in BOOLEAN}
    /\ outdir0 = outdir
    /\ srcDir = {}
    /\ dfPartition = <<>>
    /\ dfAttrs = <<>>
    /\ specs = <<>>
    /\ images = <<>>
    /\ parts = <<>>
    /\ split_dict = <<>>
    /\ cur = 1
    /\ sent = 0
    /\ running = NoPool
    /\ results = <<>>
    /\ pbar = NoPbar

\* main without the check of the output root.
CheckExists_noguard ==
    /\ pc = "exists"
    /\ pc' = After("exists")
    /\ UNCHANGED <<err, cmdargs, outdir, outdir0, srcDir, dfPartition, dfAttrs,
                   specs, images, parts, split_dict, cur, sent, running,
                   results, pbar>>

\* if os.path.exists(cmdargs.outdir): raise RuntimeError
CheckExists ==
    /\ pc = "exists"
    /\ IF outdir.exists THEN Raise("exists")
       ELSE pc' = After("exists") /\ err' = err
    /\ UNCHANGED <<cmdargs, outdir, outdir0, srcDir, dfPartition, dfAttrs,
                   specs, images, parts, split_dict, cur, sent, running,
                   results, pbar>>

\* The two metadata files are read here; what they hold is the input.
LoadSpecs ==
    /\ pc = "load"
    /\ \E pt \in PartTables, at \in AttrTables :
          /\ dfPartition' = pt
          /\ dfAttrs' = at
          /\ specs' = load_celeba_specs(at, pt)
    /\ pc' = After("load")
    /\ UNCHANGED <<err, cmdargs, outdir, outdir0, srcDir, images, parts,
                   split_dict, cur, sent, running, results, pbar>>

ValidateAttr ==
    /\ pc = "validate_attr"
    /\ IF validate_attr(specs, cmdargs.attr)
       THEN pc' = After("validate_attr") /\ err' = err
       ELSE Raise("attr")
    /\ UNCHANGED <<cmdargs, outdir, outdir0, srcDir, dfPartition, dfAttrs,
                   specs, images, parts, split_dict, cur, sent, running,
                   results, pbar>>

\* sorted(os.listdir(root)): the directory's content is read here and the
\* program never writes to it.
CollectImages ==
    /\ pc = "collect"
    /\ \E S \in SUBSET ImageNames :
          /\ srcDir' = S
          /\ images' = sorted(S)
    /\ pc' = After("collect")
    /\ UNCHANGED <<err, cmdargs, outdir, outdir0, dfPartition, dfAttrs, specs,
                   parts, split_dict, cur, sent, running, results, pbar>>

ValidateImages ==
    /\ pc = "validate_images"
    /\ LET e == validate_images(images, specs)
       IN  IF e = "none" THEN pc' = After("validate_images") /\ err' = err
           ELSE Raise(e)
    /\ UNCHANGED <<cmdargs, outdir, outdir0, srcDir, dfPartition, dfAttrs,
                   specs, images, parts, split_dict, cur, sent, running,
                   results, pbar>>

PrepareSplit ==
    /\ pc = "prepare_split"
    /\ split_dict' = prepare_image_split(specs, cmdargs.attr,
                                         cmdargs.separate_val)
    /\ pc' = After("prepare_split")
    /\ UNCHANGED <<err, cmdargs, outdir, outdir0, srcDir, dfPartition, dfAttrs,
                   specs, images, parts, cur, sent, running, results, pbar>>

ValidateSplit ==
    /\ pc = "validate_split"
    /\ IF validate_image_split(specs, split_dict)
       THEN pc' = After("validate_split") /\ err' = err
       ELSE Raise("split")
    /\ UNCHANGED <<cmdargs, outdir, outdir0, srcDir, dfPartition, dfAttrs,
                   specs, images, parts, split_dict, cur, sent, running,
                   results, pbar>>

\* os.makedirs(outdir, exist_ok = True), then os.mkdir of each bucket in the
\* dict's order; os.mkdir raises FileExistsError on a directory that exists.
PrepareOutdir ==
    /\ pc = "prepare_outdir"
    /\ LET names == [i \in 1..Len(split_dict) |-> split_dict[i].name]
           clash == {i \in 1..Len(names) : names[i] \in outdir.subdirs}
           stop  == IF clash = {} THEN Len(names) + 1
                    ELSE CHOOSE i \in clash : \A j \in clash : i <= j
           made  == {names[i] : i \in 1..(stop - 1)}
       IN  /\ outdir' = [outdir EXCEPT !.exists = TRUE,
                                       !.subdirs = @ \cup made]
           /\ IF clash = {} THEN pc' = After("prepare_outdir") /\ err' = err
              ELSE Raise("mkdir")
    /\ UNCHANGED <<cmdargs, outdir0, srcDir, dfPartition, dfAttrs, specs,
                   images, parts, split_dict, cur, sent, running, results,
                   pbar>>

\* ------------------------------------------------------ split_images
Files == split_dict[cur].files
PoolIdle == \A w \in DOMAIN running : running[w] = Idle

\* One turn of the loop over split_dict.items(): the progress bar, the
\* worker and the pool of the bucket.
StartBucket ==
    /\ pc = "split_images"
    /\ pbar' = [n |-> 0, total |-> Len(Files)]
    /\ sent' = 0
    /\ running' = NoPool
    /\ results' = <<>>
    /\ pc' = "pool"
    /\ UNCHANGED <<err, cmdargs, outdir, outdir0, srcDir, dfPartition, dfAttrs,
                   specs, images, parts, split_dict, cur>>

\* An idle worker process takes the next task of the iterable.
WorkerTake(w) ==
    /\ pc = "pool"
    /\ running[w] = Idle
    /\ sent < Len(Files)
    /\ running' = [running EXCEPT ![w] = <<Files[sent + 1]>>]
    /\ sent' = sent + 1
    /\ UNCHANGED <<pc, err, cmdargs, outdir, outdir0, srcDir, dfPartition,
                   dfAttrs, specs, images, parts, split_dict, cur, results,
                   pbar>>

\* CopyWorker.__call__ in a worker process: shutil.copy raises when the
\* source file or the destination directory is missing, and may raise for
\* reasons outside the program (disk full, permissions).
WorkerCopy(w) ==
    /\ pc = "pool"
    /\ running[w] # Idle
    /\ LET f     == running[w][1]
           fname == CopyName(f)
           dst   == curr_outdir(split_dict[cur].name)
       IN  IF fname \notin srcDir
           THEN /\ results' = Append(results, Failure(f, "nosrc"))
                /\ outdir' = outdir
           ELSE IF ~DirExists(dst)
           THEN /\ results' = Append(results, Failure(f, "nodst"))
                /\ outdir' = outdir
           ELSE \/ /\ outdir' = [outdir EXCEPT !.files = @ \cup {<<dst, fname>>}]
                   /\ results' = Append(results, Success(f))
                \/ /\ results' = Append(results, Failure(f, "io"))
                   /\ outdir' = outdir
    /\ running' = [running EXCEPT ![w] = Idle]
    /\ UNCHANGED <<pc, err, cmdargs, outdir0, srcDir, dfPartition, dfAttrs,
                   specs, images, parts, split_dict, cur, sent, pbar>>

\* A loop that drops a failed result and goes on.
MainRecv_swallow ==
    /\ pc = "pool"
    /\ results # <<>>
    /\ pbar' = IF Head(results).ok THEN update(pbar) ELSE pbar
    /\ results' = Tail(results)
    /\ UNCHANGED <<pc, err, cmdargs, outdir, outdir0, srcDir, dfPartition,
                   dfAttrs, specs, images, parts, split_dict, cur, sent,
                   running>>

\* The body of `for _ in pool.imap_unordered(worker, files)`: the next result
\* in completion order; a result that is an exception is raised in main, and
\* leaving the with block terminates the pool.
MainRecv ==
    /\ pc = "pool"
    /\ results # <<>>
    /\ IF Head(results).ok
       THEN /\ pbar' = update(pbar)
            /\ results' = Tail(results)
            /\ UNCHANGED <<pc, err, running>>
       ELSE /\ Raise(Head(results).why)
            /\ running' = NoPool
            /\ results' = <<>>
            /\ pbar' = pbar
    /\ UNCHANGED <<cmdargs, outdir, outdir0, srcDir, dfPartition, dfAttrs,
                   specs, images, parts, split_dict, cur, sent>>

\* The iterator is exhausted: the pool is left, pbar.close(), next bucket.
FinishBucket ==
    /\ pc = "pool"
    /\ sent = Len(Files)
    /\ PoolIdle
    /\ results = <<>>
    /\ IF cur = Len(split_dict)
       THEN pc' = After("split_images") /\ cur' = cur
       ELSE pc' = "split_images" /\ cur' = cur + 1
    /\ UNCHANGED <<err, cmdargs, outdir, outdir0, srcDir, dfPartition, dfAttrs,
                   specs, images, parts, split_dict, sent, running, results,
                   pbar>>

\* The tool is run again with the same command line.
Rerun ==
    /\ pc \in {"done", "error"}
    /\ pc' = MainOrder[1]
    /\ err' = "none"
    /\ outdir0' = outdir
    /\ srcDir' = {}
    /\ dfPartition' = <<>>
    /\ dfAttrs' = <<>>
    /\ specs' = <<>>
    /\ images' = <<>>
    /\ split_dict' = <<>>
    /\ cur' = 1
    /\ sent' = 0
    /\ running' = NoPool
    /\ results' = <<>>
    /\ pbar' = NoPbar
    /\ UNCHANGED <<cmdargs, outdir, parts>>

Next ==
    \/ CheckExists
    \/ LoadSpecs
    \/ ValidateAttr
    \/ CollectImages
    \/ ValidateImages
    \/ PrepareSplit
    \/ ValidateSplit
    \/ PrepareOutdir
    \/ StartBucket
    \/ \E w \in DOMAIN running : WorkerTake(w)
    \/ \E w \in DOMAIN running : WorkerCopy(w)
    \/ MainRecv
    \/ FinishBucket
    \/ Rerun

Spec == Init /\ [][Next]_vars

\* ------------------------------------- the metadata functions applied
\* Each function on its own, on every table within the bounds.
FnInit ==
    /\ pc = "fn_load"
    /\ err = "none"
    /\ cmdargs = [attr |-> "Male", separate_val |-> FALSE, workers |-> 1]
    /\ outdir = [exists |-> FALSE, subdirs |-> {}, files |-> {}]
    /\ outdir0 = outdir
    /\ srcDir = {}
    /\ dfPartition \in FnPartTables
    /\ dfAttrs \in FnAttrTables
    /\ specs = <<>>
    /\ images = <<>>
    /\ parts = <<>>
    /\ split_dict = <<>>
    /\ cur = 1
    /\ sent = 0
    /\ running = NoPool
    /\ results = <<>>
    /\ pbar = NoPbar

FnLoad ==
    /\ pc = "fn_load"
    /\ specs' = load_celeba_specs(dfAttrs, dfPartition)
    /\ pc' = "fn_single"
    /\ UNCHANGED <<err, cmdargs, outdir, outdir0, srcDir, dfPartition, dfAttrs,
                   images, parts, split_dict, cur, sent, running, results,
                   pbar>>

FnSingle ==
    /\ pc = "fn_single"
    /\ parts' = [p \in DOMAIN PARTITIONS |->
                    prepare_single_split(specs, cmdargs.attr, p)]
    /\ pc' = "fn_split"
    /\ UNCHANGED <<err, cmdargs, outdir, outdir0, srcDir, dfPartition, dfAttrs,
                   specs, images, split_dict, cur, sent, running, results,
                   pbar>>

\* prepare_image_split with either value of its flag.
FnSplit ==
    /\ pc = "fn_split"
    /\ \E separate_val \in BOOLEAN :
          /\ cmdargs' = [cmdargs EXCEPT !.separate_val = separate_val]
          /\ split_dict' = prepare_image_split(specs, cmdargs.attr, separate_val)
    /\ pc' = "fn_validate"
    /\ UNCHANGED <<err, outdir, outdir0, srcDir, dfPartition, dfAttrs,
                   specs, images, parts, cur, sent, running, results, pbar>>

FnValidate ==
    /\ pc = "fn_validate"
    /\ IF validate_image_split(specs, split_dict)
       THEN pc' = "fn_done" /\ err' = err
       ELSE Raise("split")
    /\ UNCHANGED <<cmdargs, outdir, outdir0, srcDir, dfPartition, dfAttrs,
                   specs, images, parts, split_dict, cur, sent, running,
                   results, pbar>>

FnNext == FnLoad \/ FnSingle \/ FnSplit \/ FnValidate

FnSpec == FnInit /\ [][FnNext]_vars

\* ============================================================ claims
SplitComputed == pc \in {"fn_validate", "fn_done", "error"}
SinglesComputed == pc \in {"fn_split", "fn_validate", "fn_done", "error"}
Loaded == pc # "fn_load"

Keys(df) == {df[i].key : i \in 1..Len(df)}
RowPos(key) == CHOOSE i \in 1..Len(specs) : specs[i].key = key
RowOf(key) == specs[RowPos(key)]
BucketFiles(name) ==
    split_dict[CHOOSE i \in 1..Len(split_dict) : split_dict[i].name = name].files

\* C1: the buckets prepare_image_split returns partition the metadata rows:
\* their lengths sum to the number of rows, no stem is in two buckets, and
\* validate_image_split does not fail.
C1_BucketsPartitionRows ==
    SplitComputed =>
        /\ SumLen(split_dict) = Len(specs)
        /\ \A i, j \in 1..Len(split_dict) :
              i # j => Range(split_dict[i].files) \cap
                       Range(split_dict[j].files) = {}
        /\ err # "split"

\* C6: load_celeba_specs fails when the key sets of the two tables differ,
\* and every row of a table it returns has a partition and a value in every
\* attribute column.
C6_JoinAlignedOrFails ==
    Loaded =>
        /\ Keys(dfPartition) # Keys(dfAttrs) => err = "format"
        /\ err = "none" =>
              \A i \in 1..Len(specs) :
                  /\ specs[i].partition \in PartCodes
                  /\ \A c \in Header : specs[i].attrs[c] # NaN

\* The files of `list` are the keys of the rows that satisfy P, once each,
\* in the table's row order.
ExactlyInRowOrder(list, P(_)) ==
    /\ Range(list) = {specs[i].key : i \in {k \in 1..Len(specs) : P(specs[k])}}
    /\ \A i, j \in 1..Len(list) : i < j => RowPos(list[i]) < RowPos(list[j])

\* C7: prepare_single_split returns as class A the rows of the partition
\* whose attribute is > 0 and as class B those whose attribute is <= 0 (0 is
\* class B), each in the table's row order.
C7_SingleSplitBySign ==
    SinglesComputed =>
        \A p \in DOMAIN PARTITIONS :
            LET IsA(r) == /\ r.partition = PARTITIONS[p]
                          /\ r.attrs[cmdargs.attr] # NaN
                          /\ r.attrs[cmdargs.attr][1] > 0
                IsB(r) == /\ r.partition = PARTITIONS[p]
                          /\ r.attrs[cmdargs.attr] # NaN
                          /\ r.attrs[cmdargs.attr][1] <= 0
            IN  /\ ExactlyInRowOrder(parts[p][1], IsA)
                /\ ExactlyInRowOrder(parts[p][2], IsB)

\* Three train rows with the values 1, -1, 0: trainA is the first row and
\* trainB the second and the third.
C7_Witness ==
    /\ SinglesComputed
    /\ Len(specs) = 3
    /\ \A i \in 1..3 : specs[i].partition = PARTITIONS["train"]
    /\ [i \in 1..3 |-> specs[i].attrs[cmdargs.attr]] = <<Cell(1), Cell(-1), Cell(0)>>
    /\ parts["train"] = << <<specs[1].key>>, <<specs[2].key, specs[3].key>> >>

\* C5: without --separate-val, testA is the test class-A list followed by the
\* val class-A list and testB likewise: a test item precedes every val item,
\* and items of the same partition are in the table's row order.
C5_TestThenVal ==
    (SplitComputed /\ ~cmdargs.separate_val) =>
        \A b \in {<<"testA", TRUE>>, <<"testB", FALSE>>} :
            LET f == BucketFiles(b[1])
                In(r) == /\ r.partition \in {PARTITIONS["test"], PARTITIONS["val"]}
                         /\ r.attrs[cmdargs.attr] # NaN
                         /\ (r.attrs[cmdargs.attr][1] > 0) = b[2]
            IN  /\ Range(f) = {specs[i].key : i \in {k \in 1..Len(specs) : In(specs[k])}}
                /\ \A i, j \in 1..Len(f) : i < j =>
                      /\ RowOf(f[i]).partition = PARTITIONS["val"]
                            => RowOf(f[j]).partition = PARTITIONS["val"]
                      /\ RowOf(f[i]).partition = RowOf(f[j]).partition
                            => RowPos(f[i]) < RowPos(f[j])

\* testA holds two test rows and then a val row that is the table's first row.
C5_Witness ==
    /\ SplitComputed
    /\ ~cmdargs.separate_val
    /\ Len(BucketFiles("testA")) = 3
    /\ RowPos(BucketFiles("testA")[3]) = 1
    /\ RowOf(BucketFiles("testA")[3]).partition = PARTITIONS["val"]
    /\ RowOf(BucketFiles("testA")[1]).partition = PARTITIONS["test"]
    /\ RowOf(BucketFiles("testA")[2]).partition = PARTITIONS["test"]

\* ------------------------------------------------------ runs of main
EagerErrors == {"exists", "attr", "count", "ext", "index", "split"}
CopyErrors == {"nosrc", "nodst", "io"}

\* validate_images has returned in this run.
ImagesValidated ==
    \/ pc \in {"prepare_split", "validate_split", "prepare_outdir",
               "split_images", "pool", "done"}
    \/ pc = "error" /\ err \in {"split", "mkdir"} \cup CopyErrors

\* C2: a run started when the output root exists ends with the already-exists
\* error and changes nothing under the output root; so a run that completes
\* started without one, and the run after it fails.
C2_SecondRunRefused ==
    outdir0.exists =>
        /\ pc = "exists" \/ (pc = "error" /\ err = "exists")
        /\ outdir = outdir0

\* The second run, after a first one that copied files, has been refused.
C2_Witness ==
    /\ pc = "error"
    /\ err = "exists"
    /\ outdir0.files # {}
    /\ outdir = outdir0

\* C3: a run that ends with a precondition or data-integrity error has
\* created no directory and copied no file: the output root is as the run
\* found it, and but for the already-exists error it does not exist.
C3_EagerErrorsBeforeMkdir ==
    (pc = "error" /\ err \in EagerErrors) =>
        /\ outdir = outdir0
        /\ err # "exists" => (~outdir.exists /\ outdir.subdirs = {})

\* The last of the eager checks, the split count, has failed.
C3_Witness ==
    /\ pc = "error"
    /\ err = "split"
    /\ ~outdir.exists

\* C4: once validate_images has passed, the listing and the table index
\* correspond one to one under .png <-> .jpg, and no copy finds its source
\* file missing.
C4_ListingMatchesIndex ==
    ImagesValidated =>
        /\ Len(images) = Len(specs)
        /\ \A i \in 1..Len(specs) :
              [base |-> specs[i].key.base, ext |-> FILE_EXT] \in srcDir
        /\ \A f \in srcDir :
              /\ f.ext = FILE_EXT
              /\ Cardinality({i \in 1..Len(specs) :
                     specs[i].key = [base |-> f.base, ext |-> INDEX_EXT]}) = 1
        /\ err # "nosrc"
        /\ \A i \in 1..Len(results) : results[i].why # "nosrc"

\* A copy of the fan-out has found its source and completed.
C4_Witness ==
    /\ pc = "pool"
    /\ results # <<>>
    /\ Head(results).ok
    /\ Len(specs) = NumImages

ExpectedBucket(r) ==
    LET a == r.attrs[cmdargs.attr][1] > 0
        p == r.partition
    IN  CASE p = PARTITIONS["train"] /\ a  -> "trainA"
          [] p = PARTITIONS["train"] /\ ~a -> "trainB"
          [] p = PARTITIONS["val"] /\ cmdargs.separate_val /\ a  -> "valA"
          [] p = PARTITIONS["val"] /\ cmdargs.separate_val /\ ~a -> "valB"
          [] OTHER -> IF a THEN "testA" ELSE "testB"

\* C8: when main completes, every source image is in exactly one bucket
\* directory, the one of its partition and attribute sign, under its .png
\* name, and a bucket directory holds nothing else.
C8_EachImageInItsBucket ==
    pc = "done" =>
        /\ \A f \in srcDir :
              {e \in outdir.files : e[2] = f} =
                 {<<ExpectedBucket(RowOf([base |-> f.base, ext |-> INDEX_EXT])), f>>}
        /\ \A e \in outdir.files :
              /\ e[1] \in outdir.subdirs
              /\ e[2] \in srcDir
              /\ e[2].ext = FILE_EXT

\* A completed run that copied every image, into two different buckets.
C8_Witness ==
    /\ pc = "done"
    /\ Cardinality(srcDir) = NumImages
    /\ Cardinality({e[1] : e \in outdir.files}) >= 2

FailedAt(i) == i \in 1..Len(results) /\ ~results[i].ok
FailurePending == pc = "pool" /\ \E i \in 1..Len(results) : FailedAt(i)

\* C9: once a copy has failed, the run stays in that bucket until main takes
\* the failure and then ends in the error state: the failed file is not
\* handed to a worker again, no later bucket is started, and the files
\* copied so far stay where they are.
C9_CopyFailureIsFatal ==
    [][ /\ FailurePending =>
              /\ pc' \in {"pool", "error"}
              /\ cur' = cur
              /\ sent' >= sent
              /\ outdir.files \subseteq outdir'.files
              /\ outdir'.subdirs = outdir.subdirs
              /\ \A i \in 1..Len(results) : FailedAt(i) =>
                    \A w \in DOMAIN running' :
                        running'[w] # <<results[i].file>>
              /\ pc' = "pool" => \E i \in 1..Len(results') : ~results'[i].ok
              /\ pc' = "error" => err' \in CopyErrors
        /\ (pc = "error" /\ err \in CopyErrors) =>
              /\ outdir' = outdir
              /\ pc' \in {"error", "exists"}
      ]_vars

\* A copy failed after another file was copied, with buckets still to come.
C9_Witness ==
    /\ pc = "error"
    /\ err = "io"
    /\ outdir.files # {}
    /\ cur < Len(split_dict)

Busy == Cardinality({w \in DOMAIN running : running[w] # Idle})

\* C10: in a bucket the progress counter is the number of results main has
\* taken: with the results waiting it accounts for every completed copy, it
\* never exceeds the total, it moves only up and by one, when main takes a
\* result, and it equals the total when the bucket is finished.
C10_ProgressCounter ==
    /\ [](pc = "pool" =>
            /\ pbar.total = Len(Files)
            /\ pbar.n <= pbar.total
            /\ pbar.n + Len(results) = sent - Busy)
    /\ [](pc \in {"split_images", "done"} => pbar.n = pbar.total)
    /\ [][(pc = "pool" /\ pc' = "pool") =>
            /\ pbar'.total = pbar.total
            /\ pbar'.n \in {pbar.n, pbar.n + 1}
            /\ pbar'.n = pbar.n + 1 <=> Len(results') < Len(results)]_vars

\* The second file of a bucket has been counted while the first is still
\* being copied.
C10_Witness ==
    /\ pc = "pool"
    /\ pbar.n = 1
    /\ \E w \in DOMAIN running : running[w] = <<Files[1]>>
====
